---------------------------- MODULE Spec2Model ----------------------------
(***************************************************************************)
(* Model of src/generate_documents.py: the header matcher                  *)
(* (find_column_index), the selection engine (parse_row_selection,         *)
(* filter_rows_by_constructions), the grouping engine                      *)
(* (group_rows_by_construction), create_word_document with its row plan    *)
(* and its save policy, the sheet loader (read_excel_file) and the run of  *)
(* main with its prompts.                                                  *)
(*                                                                         *)
(* A text (Python str) is a sequence of one-character strings.  Python's   *)
(* None is NoneIdx for an Optional[int], NoneText for an Optional[str] and *)
(* NoneList for an Optional[List[str]].                                    *)
(***************************************************************************)
EXTENDS Integers, Sequences, FiniteSets, TLC

VARIABLES
    pc,                      \* position of the modelled call
    raised,                  \* TRUE when an exception left the modelled call
    selection,               \* parse_row_selection: argument selection
    total_rows,              \* parse_row_selection: argument total_rows
    selected_indices,        \* parse_row_selection: returned list
    data_rows,               \* rows of the sheet (list of lists of texts)
    row_indices,             \* argument row_indices
    construction_col,        \* Optional[int] index of the group column
    selected_constructions,  \* Optional[List[str]] chosen groups
    filtered_indices,        \* filter_rows_by_constructions: returned list
    construction_groups,     \* group_rows_by_construction: returned list
    column_mapping,          \* create_word_document: argument column_mapping
    num_rows_table,          \* create_word_document: rows allocated
    table,                   \* create_word_document: rows of the table
    current_table_row,       \* create_word_document: write cursor
    row_counter,             \* create_word_document: sequence number
    group_pos,               \* create_word_document: group of the outer loop
    member_pos,              \* create_word_document: member of the inner loop
    headers,                 \* find_column_index: argument headers
    search_names,            \* find_column_index: argument search_names
    found_index,             \* find_column_index: returned Optional[int]
    output_filename,         \* create_word_document: argument output_filename
    output_dir,              \* names of the files present in OUTPUT_DIR
    output_path,             \* create_word_document: local output_path
    unlink_result,           \* outcome of output_path.unlink()
    save_result,             \* outcome of doc.save()
    build_result,            \* create_word_document: returned Optional[Path]
    caller,                  \* "main", or "direct" for a call of read_excel_file
    excel_files,             \* main: the workbooks found in DATA_DIR
    selected_file,           \* main: Optional index of the chosen workbook
    workbook,                \* read_excel_file: "unopened", "open" or "closed"
    sheet_name,              \* read_excel_file: Optional[str] sheet name
    load_error,              \* read_excel_file: the exception caught at 322
    filtered_data,           \* main: the rows left by the pre-filter
    typed,                   \* the last answer given to input()
    interrupted,             \* the prompt at which Ctrl-C was pressed
    printed,                 \* the diagnostics printed so far
    exit_status              \* Optional[int] exit status of the process

parseVars == << selection, total_rows, selected_indices >>
rowVars == << data_rows, row_indices, construction_col, selected_constructions,
              filtered_indices, construction_groups >>
buildVars == << column_mapping, num_rows_table, table, current_table_row,
                row_counter, group_pos, member_pos >>
findVars == << headers, search_names, found_index >>
saveVars == << output_filename, output_dir, output_path, unlink_result,
               save_result, build_result >>

mainVars == << caller, excel_files, selected_file, workbook, sheet_name,
               load_error, filtered_data, typed, interrupted, printed,
               exit_status >>

vars == << pc, raised, parseVars, rowVars, buildVars, findVars, saveVars,
           mainVars >>

----------------------------------------------------------------------------
(* Bounds of the model                                                     *)

MaxLen == 4        \* longest selection expression enumerated exhaustively
MaxTotal == 3      \* largest total_rows
MaxNum == 3        \* largest number rendered in the range-term statements
MaxRows == 2       \* longest sheet enumerated exhaustively
MaxSel == 3        \* longest row_indices given to the grouping
MaxFilterSel == 2  \* longest row_indices given to the filter
MaxHeaders == 3    \* longest header list
MaxNames == 2      \* longest candidate list
MaxBuildSel == 3   \* longest row_indices given to the document builder

----------------------------------------------------------------------------
(* Python values                                                           *)

NoneIdx == -1
NoneText == << "None" >>
NoneList == << << "None" >> >>

Min(a, b) == IF a < b THEN a ELSE b
Max(a, b) == IF a > b THEN a ELSE b

ToSet(s) == { s[i] : i \in 1..Len(s) }

\* range(lo, hi) as a list
RECURSIVE PyRange(_, _)
PyRange(lo, hi) == IF lo >= hi THEN << >> ELSE << lo >> \o PyRange(lo + 1, hi)

\* sorted(S) for a set of integers
RECURSIVE SortedOfSet(_)
SortedOfSet(S) ==
    IF S = {} THEN << >>
    ELSE LET m == CHOOSE x \in S : \A y \in S : x <= y
         IN  << m >> \o SortedOfSet(S \ {m})

\* insert x into an ascending list, after the elements equal to it
RECURSIVE InsertSorted(_, _)
InsertSorted(x, s) ==
    IF s = << >> THEN << x >>
    ELSE IF x < Head(s) THEN << x >> \o s
    ELSE << Head(s) >> \o InsertSorted(x, Tail(s))

\* sorted(list) for a list of integers (duplicates kept)
RECURSIVE SortedList(_)
SortedList(s) ==
    IF s = << >> THEN << >>
    ELSE InsertSorted(s[Len(s)], SortedList(SubSeq(s, 1, Len(s) - 1)))

----------------------------------------------------------------------------
(* Text operations: str.strip, str.lower, str.split, int()                 *)

DigitChars == << "0", "1", "2", "3", "4", "5", "6", "7", "8", "9" >>
IsDigit(c) == \E i \in 1..10 : DigitChars[i] = c
DigitVal(c) == (CHOOSE i \in 1..10 : DigitChars[i] = c) - 1

IsSpace(c) == c = " "

RECURSIVE LStrip(_)
LStrip(t) == IF t # << >> /\ IsSpace(Head(t)) THEN LStrip(Tail(t)) ELSE t

RECURSIVE RStrip(_)
RStrip(t) ==
    IF t # << >> /\ IsSpace(t[Len(t)]) THEN RStrip(SubSeq(t, 1, Len(t) - 1))
    ELSE t

Strip(t) == RStrip(LStrip(t))

LowerChar(c) ==
    CASE c = "A" -> "a"
      [] c = "B" -> "b"
      [] c = "C" -> "c"
      [] c = "D" -> "d"
      [] c = "F" -> "f"
      [] c = "K" -> "k"
      [] c = "L" -> "l"
      [] c = "N" -> "n"
      [] c = "P" -> "p"
      [] c = "T" -> "t"
      [] c = "Z" -> "z"
      [] c = "X" -> "x"
      [] OTHER -> c

Lower(t) == [ i \in 1..Len(t) |-> LowerChar(t[i]) ]

Contains(t, c) == \E i \in 1..Len(t) : t[i] = c

\* index of the first occurrence of c in t (c occurs in t)
FirstPos(t, c) == CHOOSE i \in 1..Len(t) : t[i] = c /\ \A j \in 1..(i - 1) : t[j] # c

\* t.split(c): always at least one part
RECURSIVE Split(_, _)
Split(t, c) ==
    IF ~Contains(t, c) THEN << t >>
    ELSE LET p == FirstPos(t, c)
         IN  << SubSeq(t, 1, p - 1) >> \o Split(SubSeq(t, p + 1, Len(t)), c)

\* t.split(c, 1) when c occurs in t: the text before and after the first c
SplitOnce(t, c) ==
    LET p == FirstPos(t, c)
    IN  << SubSeq(t, 1, p - 1), SubSeq(t, p + 1, Len(t)) >>

AllDigits(t) == t # << >> /\ \A i \in 1..Len(t) : IsDigit(t[i])

RECURSIVE DecimalValue(_)
DecimalValue(t) ==
    IF t = << >> THEN 0
    ELSE 10 * DecimalValue(SubSeq(t, 1, Len(t) - 1)) + DigitVal(t[Len(t)])

\* int(t) succeeds: optional surrounding whitespace, optional sign, digits
IntOk(t) ==
    LET s == Strip(t)
    IN  IF s # << >> /\ (Head(s) = "-" \/ Head(s) = "+")
        THEN AllDigits(Tail(s))
        ELSE AllDigits(s)

\* int(t) when it succeeds
IntOf(t) ==
    LET s == Strip(t)
    IN  IF Head(s) = "-" THEN 0 - DecimalValue(Tail(s))
        ELSE IF Head(s) = "+" THEN DecimalValue(Tail(s))
        ELSE DecimalValue(s)

\* str(n) for n >= 0: the decimal numeral
RECURSIVE Numeral(_)
Numeral(n) ==
    IF n < 10 THEN << DigitChars[n + 1] >>
    ELSE Numeral(n \div 10) \o << DigitChars[(n % 10) + 1] >>

----------------------------------------------------------------------------
(* parse_row_selection                                                     *)
(* A term's outcome is [raised, indices]: indices is what the term added   *)
(* to selected_indices, raised is TRUE when an exception left the term.    *)

AllWord == << "a", "l", "l" >>

\* the except ValueError branches: the error is reported and the loop goes on
ExceptValueErrorReraise(part) == [ raised |-> TRUE, indices |-> << >> ]
ExceptValueError(part) == [ raised |-> FALSE, indices |-> << >> ]

\* the clamping of a range's bounds, then range(start_idx, end_idx)
ClampedRangeNoClamp(start_idx, end_idx, total) == PyRange(start_idx, end_idx)
ClampedRange(start_idx, end_idx, total) ==
    LET s == IF start_idx < 0 THEN 0 ELSE start_idx
        e == IF end_idx > total THEN total ELSE end_idx
    IN  PyRange(s, e)

\* the branch of a term that holds '-'
RangeTerm(part, total) ==
    LET se == SplitOnce(part, "-")
    IN  IF IntOk(se[1]) /\ IntOk(se[2])
        THEN [ raised |-> FALSE,
               indices |-> ClampedRange(IntOf(se[1]) - 1, IntOf(se[2]), total) ]
        ELSE ExceptValueError(part)

\* the branch of a term without '-'
SingleTerm(part, total) ==
    IF IntOk(part)
    THEN LET row_idx == IntOf(part) - 1
         IN  [ raised |-> FALSE,
               indices |-> IF 0 <= row_idx /\ row_idx < total
                           THEN << row_idx >> ELSE << >> ]
    ELSE ExceptValueError(part)

Term(part0, total) ==
    LET part == Strip(part0)
    IN  IF Contains(part, "-") THEN RangeTerm(part, total)
        ELSE SingleTerm(part, total)

\* the for loop over the parts: the list built, or an exception leaving it
RECURSIVE TermLoop(_, _, _)
TermLoop(parts, total, acc) ==
    IF parts = << >> THEN [ raised |-> FALSE, indices |-> acc ]
    ELSE LET r == Term(Head(parts), total)
         IN  IF r.raised THEN [ raised |-> TRUE, indices |-> << >> ]
             ELSE TermLoop(Tail(parts), total, acc \o r.indices)

\* sorted(set(selected_indices))
DedupSortKeepAll(indices) == indices
DedupSort(indices) == SortedOfSet(ToSet(indices))

ParseRowSelection(sel, total) ==
    LET s == Lower(Strip(sel))
    IN  IF s = AllWord THEN [ raised |-> FALSE, indices |-> PyRange(0, total) ]
        ELSE LET r == TermLoop(Split(s, ","), total, << >>)
             IN  IF r.raised THEN r
                 ELSE [ raised |-> FALSE, indices |-> DedupSort(r.indices) ]

----------------------------------------------------------------------------
(* Comparison of texts: Python compares str by code point                  *)

CharCode(c) ==
    CASE c = " " -> 32
      [] c = "A" -> 65
      [] c = "B" -> 66
      [] c = "C" -> 67
      [] c = "a" -> 97
      [] c = "b" -> 98
      [] c = "c" -> 99
      [] OTHER -> 120

RECURSIVE TextLess(_, _)
TextLess(s, t) ==
    IF t = << >> THEN FALSE
    ELSE IF s = << >> THEN TRUE
    ELSE IF CharCode(Head(s)) # CharCode(Head(t))
         THEN CharCode(Head(s)) < CharCode(Head(t))
    ELSE TextLess(Tail(s), Tail(t))

----------------------------------------------------------------------------
(* group_rows_by_construction                                              *)
(* A group is the tuple << construction_name, indices >>; the dict groups  *)
(* is the list of its items in insertion order.                            *)

\* the name of a row's group: the trimmed cell, None when it is empty or
\* when the row or the column does not exist
ConstructionNameUntrimmed(rows, row_idx, col) ==
    IF row_idx < Len(rows)
    THEN LET row == rows[row_idx + 1]
         IN  IF col < Len(row)
             THEN IF Strip(row[col + 1]) = << >> THEN NoneText ELSE row[col + 1]
             ELSE NoneText
    ELSE NoneText
ConstructionName(rows, row_idx, col) ==
    IF row_idx < Len(rows)
    THEN LET row == rows[row_idx + 1]
         IN  IF col < Len(row)
             THEN LET construction_name == Strip(row[col + 1])
                  IN  IF construction_name = << >> THEN NoneText
                      ELSE construction_name
             ELSE NoneText
    ELSE NoneText

HasKey(groups, name) == \E i \in 1..Len(groups) : groups[i][1] = name

\* groups[name].append(row_idx), the key created when it is new
AppendToGroup(groups, name, row_idx) ==
    IF HasKey(groups, name)
    THEN [ i \in 1..Len(groups) |->
             IF groups[i][1] = name
             THEN << name, Append(groups[i][2], row_idx) >>
             ELSE groups[i] ]
    ELSE Append(groups, << name, << row_idx >> >>)

\* the for loop over row_indices
RECURSIVE GroupLoop(_, _, _, _)
GroupLoop(rows, indices, col, groups) ==
    IF indices = << >> THEN groups
    ELSE GroupLoop(rows, Tail(indices), col,
                   AppendToGroup(groups,
                                 ConstructionName(rows, Head(indices), col),
                                 Head(indices)))

\* the list comprehension: each group's indices sorted
SortMembersKeepOrder(groups) == groups
SortMembers(groups) ==
    [ i \in 1..Len(groups) |-> << groups[i][1], SortedList(groups[i][2]) >> ]

\* the sort key (x[0] is None, x[0] or "") and its order
GroupKeyLess(g, h) ==
    LET gNone == g[1] = NoneText
        hNone == h[1] = NoneText
        gText == IF gNone THEN << >> ELSE g[1]
        hText == IF hNone THEN << >> ELSE h[1]
    IN  IF gNone # hNone THEN hNone ELSE TextLess(gText, hText)

\* insert g into a list sorted by key, after the groups of equal key
RECURSIVE InsertGroup(_, _)
InsertGroup(g, sorted) ==
    IF sorted = << >> THEN << g >>
    ELSE IF GroupKeyLess(g, Head(sorted)) THEN << g >> \o sorted
    ELSE << Head(sorted) >> \o InsertGroup(g, Tail(sorted))

\* result.sort(key=...): a stable sort
RECURSIVE SortGroups(_)
SortGroupsKeepOrder(groups) == groups
SortGroups(groups) ==
    IF groups = << >> THEN << >>
    ELSE InsertGroup(groups[Len(groups)],
                     SortGroups(SubSeq(groups, 1, Len(groups) - 1)))

\* the branch taken when construction_col is None
SingleGroupSorted(indices) == << << NoneText, SortedList(indices) >> >>
SingleGroup(indices) == << << NoneText, indices >> >>

GroupRowsByConstruction(rows, indices, col) ==
    IF col = NoneIdx THEN SingleGroup(indices)
    ELSE SortGroups(SortMembers(GroupLoop(rows, indices, col, << >>)))

----------------------------------------------------------------------------
(* filter_rows_by_constructions                                            *)

\* the test of one row of the loop
KeepsRowUntrimmed(rows, row_idx, col, selected) ==
    /\ row_idx < Len(rows)
    /\ col < Len(rows[row_idx + 1])
    /\ rows[row_idx + 1][col + 1] \in ToSet(selected)
KeepsRow(rows, row_idx, col, selected) ==
    /\ row_idx < Len(rows)
    /\ col < Len(rows[row_idx + 1])
    /\ Strip(rows[row_idx + 1][col + 1]) \in ToSet(selected)

RECURSIVE FilterLoop(_, _, _, _)
FilterLoop(rows, indices, col, selected) ==
    IF indices = << >> THEN << >>
    ELSE (IF KeepsRow(rows, Head(indices), col, selected)
          THEN << Head(indices) >> ELSE << >>)
         \o FilterLoop(rows, Tail(indices), col, selected)

FilterRowsByConstructions(rows, indices, col, selected) ==
    IF selected = NoneList \/ col = NoneIdx THEN indices
    ELSE FilterLoop(rows, indices, col, selected)

----------------------------------------------------------------------------
(* find_column_index                                                       *)

\* re.sub(r'\s+', ' ', text): each run of whitespace becomes one space
RECURSIVE CollapseSpaces(_)
CollapseSpaces(t) ==
    IF Len(t) < 2 THEN t
    ELSE IF IsSpace(t[1]) /\ IsSpace(t[2]) THEN CollapseSpaces(Tail(t))
    ELSE << Head(t) >> \o CollapseSpaces(Tail(t))

\* normalize(text)
NormalizeKeepCase(text) == CollapseSpaces(Strip(text))
Normalize(text) == Lower(CollapseSpaces(Strip(text)))

\* text.replace(' ', '')
RemoveSpaces(t) == SelectSeq(t, LAMBDA c : c # " ")

\* a in b, for texts
IsSubstring(a, b) ==
    \E k \in 0..(Len(b) - Len(a)) : SubSeq(b, k + 1, k + Len(a)) = a

\* the test of the substring loop for one header
SubstringMatch(normalized_search, header) ==
    \/ IsSubstring(RemoveSpaces(normalized_search), RemoveSpaces(header))
    \/ IsSubstring(RemoveSpaces(header), RemoveSpaces(normalized_search))

\* normalized_headers.index(normalized_search): 0-based, the first one
ExactIndex(normalized_headers, normalized_search) ==
    (CHOOSE i \in 1..Len(normalized_headers) :
        /\ normalized_headers[i] = normalized_search
        /\ \A j \in 1..(i - 1) : normalized_headers[j] # normalized_search) - 1

\* the substring loop: the first header that passes, None when none does
SubstringIndexLast(normalized_headers, normalized_search) ==
    LET hits == { i \in 1..Len(normalized_headers) :
                    SubstringMatch(normalized_search, normalized_headers[i]) }
    IN  IF hits = {} THEN NoneIdx
        ELSE (CHOOSE i \in hits : \A j \in hits : j <= i) - 1
SubstringIndex(normalized_headers, normalized_search) ==
    LET hits == { i \in 1..Len(normalized_headers) :
                    SubstringMatch(normalized_search, normalized_headers[i]) }
    IN  IF hits = {} THEN NoneIdx
        ELSE (CHOOSE i \in hits : \A j \in hits : i <= j) - 1

\* one pass of the loop over search_names: the index returned, or None when
\* the loop goes on to the next name
SearchOneSubstringFirst(normalized_headers, search_name) ==
    LET normalized_search == Normalize(search_name)
    IN  IF SubstringIndex(normalized_headers, normalized_search) # NoneIdx
        THEN SubstringIndex(normalized_headers, normalized_search)
        ELSE IF normalized_search \in ToSet(normalized_headers)
        THEN ExactIndex(normalized_headers, normalized_search)
        ELSE NoneIdx
SearchOne(normalized_headers, search_name) ==
    LET normalized_search == Normalize(search_name)
    IN  IF normalized_search \in ToSet(normalized_headers)
        THEN ExactIndex(normalized_headers, normalized_search)
        ELSE SubstringIndex(normalized_headers, normalized_search)

RECURSIVE SearchLoop(_, _)
SearchLoop(normalized_headers, names) ==
    IF names = << >> THEN NoneIdx
    ELSE LET idx == SearchOne(normalized_headers, Head(names))
         IN  IF idx # NoneIdx THEN idx
             ELSE SearchLoop(normalized_headers, Tail(names))

FindColumnIndex(hdrs, names) ==
    SearchLoop([ i \in 1..Len(hdrs) |-> Normalize(hdrs[i]) ], names)

----------------------------------------------------------------------------
(* read_excel_file                                                         *)
(* A workbook is [readable, sheetnames, sheets]: load_workbook raises for  *)
(* one that is not readable; sheets[i] is the list of the rows of the      *)
(* sheet sheetnames[i], a cell being a text or NoneText.  The Cyrillic     *)
(* letters of the candidate names are written with one Latin letter each   *)
(* (a v d e j z i y k l m n o p r s t u f c h w q for                      *)
(* the lower-case ones, D Z K N P T F X for the capitals).                 *)

\* the candidate names of the defect-name column
DEFECT_NAMES ==
    << << "N", "a", "i", "m", "e", "n", "o", "v", "a", "n", "i", "e", " ",
          "d", "e", "f", "e", "k", "t", "a", " ", "/", " ", "p", "o", "v",
          "r", "e", "j", "d", "e", "n", "i", "q" >>,
       << "N", "a", "i", "m", "e", "n", "o", "v", "a", "n", "i", "e", " ",
          "d", "e", "f", "e", "k", "t", "a", "/", "p", "o", "v", "r", "e",
          "j", "d", "e", "n", "i", "q" >>,
       << "N", "a", "i", "m", "e", "n", "o", "v", "a", "n", "i", "e", " ",
          "d", "e", "f", "e", "k", "t", "a" >>,
       << "D", "e", "f", "e", "k", "t" >>,
       << "P", "o", "v", "r", "e", "j", "d", "e", "n", "i", "e" >> >>

\* the candidate names of the group column
CONSTRUCTION_NAMES ==
    << << "N", "a", "i", "m", "e", "n", "o", "v", "a", "n", "i", "e", " ",
          "k", "o", "n", "s", "t", "r", "u", "k", "c", "i", "y" >>,
       << "K", "o", "n", "s", "t", "r", "u", "k", "c", "i", "i" >>,
       << "K", "o", "n", "s", "t", "r", "u", "k", "c", "i", "q" >>,
       << "T", "i", "p", " ", "k", "o", "n", "s", "t", "r", "u", "k", "c",
          "i", "i" >>,
       << "X", "l", "e", "m", "e", "n", "t", " ", "k", "o", "n", "s", "t",
          "r", "u", "k", "c", "i", "i" >> >>

\* the candidate names of the photo-number column
PHOTO_NAMES ==
    << << "N", "o", "m", "e", "r", " ", "f", "o", "t", "o", " ", "i", "z",
          " ", "f", "o", "t", "o", "m", "a", "t", "e", "r", "i", "a", "l",
          "o", "v" >>,
       << "N", "o", "m", "e", "r", " ", "f", "o", "t", "o" >>,
       << "F", "o", "t", "o" >>,
       << "F", "o", "t", "o", "m", "a", "t", "e", "r", "i", "a", "l", "w" >>,
       << "N", "o", "m", "e", "r", " ", "f", "o", "t", "o", " ", "i", "z",
          " ", "f", "o", "t", "o" >> >>

\* the candidate names of the controlled-parameter column
PARAMETER_NAMES ==
    << << "K", "o", "n", "t", "r", "o", "l", "i", "r", "u", "e", "m", "w",
          "y", " ", "p", "a", "r", "a", "m", "e", "t", "r", " ", "d", "e",
          "f", "e", "k", "t", "a" >>,
       << "P", "a", "r", "a", "m", "e", "t", "r", " ", "d", "e", "f", "e",
          "k", "t", "a" >>,
       << "K", "o", "n", "t", "r", "o", "l", "i", "r", "u", "e", "m", "w",
          "y", " ", "p", "a", "r", "a", "m", "e", "t", "r" >>,
       << "P", "a", "r", "a", "m", "e", "t", "r" >>,
       << "P", "a", "r", "a", "m", "e", "t", "r", "w" >> >>

\* the candidate names of the note column
NOTE_NAMES ==
    << << "P", "r", "i", "m", "e", "h", "a", "n", "i", "e" >>,
       << "P", "r", "i", "m", "e", "h", "a", "n", "i", "q" >>,
       << "K", "o", "m", "m", "e", "n", "t", "a", "r", "i", "y" >>,
       << "Z", "a", "m", "e", "h", "a", "n", "i", "q" >> >>

\* str(cell).strip() if cell is not None else ""
HeaderOfCell(cell) == IF cell = NoneText THEN << >> ELSE Strip(cell)

\* str(cell) if cell is not None else ""
TextOfCell(cell) == IF cell = NoneText THEN << >> ELSE cell

\* the headers of a sheet with a first row
HeadersOf(sheet) == [ i \in 1..Len(sheet[1]) |-> HeaderOfCell(sheet[1][i]) ]

\* the dict column_mapping built from the headers; key 2 is always None
ColumnMappingOf(hdrs) ==
    << FindColumnIndex(hdrs, DEFECT_NAMES),
       NoneIdx,
       FindColumnIndex(hdrs, PHOTO_NAMES),
       FindColumnIndex(hdrs, PARAMETER_NAMES),
       FindColumnIndex(hdrs, NOTE_NAMES) >>

\* the data rows of a sheet: every row after the first, cell by cell
DataOf(sheet) ==
    [ r \in 1..(Len(sheet) - 1) |->
        [ i \in 1..Len(sheet[r + 1]) |-> TextOfCell(sheet[r + 1][i]) ] ]

\* the except branch returns the sheet name it had resolved
ErrorReturnKeepsName(name) ==
    [ data |-> << >>, sheet_name |-> name, column_mapping |-> << >>,
      construction_col |-> NoneIdx ]

\* return [], None, {}, None
ErrorReturn(name) ==
    [ data |-> << >>, sheet_name |-> NoneText, column_mapping |-> << >>,
      construction_col |-> NoneIdx ]

\* the return of the success path
LoadReturn(sheet, name) ==
    [ data |-> DataOf(sheet), sheet_name |-> name,
      column_mapping |-> ColumnMappingOf(HeadersOf(sheet)),
      construction_col |-> FindColumnIndex(HeadersOf(sheet), CONSTRUCTION_NAMES) ]

\* position of a name in workbook.sheetnames, 0 when it is not there
SheetPos(wb, name) ==
    IF \E i \in 1..Len(wb.sheetnames) : wb.sheetnames[i] = name
    THEN CHOOSE i \in 1..Len(wb.sheetnames) : wb.sheetnames[i] = name
    ELSE 0

\* what input() gives when the user presses Ctrl-C
KeyboardInterrupt == << "KeyboardInterrupt" >>

\* the sheet name after the answer to the sheet prompt
SheetAfterChoice(wb, current, answer) ==
    LET choice == Strip(answer)
    IN  IF choice = << >> THEN current
        ELSE IF IntOk(choice)
             THEN LET sheet_idx == IntOf(choice) - 1
                  IN  IF 0 <= sheet_idx /\ sheet_idx < Len(wb.sheetnames)
                      THEN wb.sheetnames[sheet_idx + 1]
                      ELSE current
             ELSE current

----------------------------------------------------------------------------
(* main and its prompts                                                    *)

\* sorted(list(S)) for a set of texts
RECURSIVE SortedTexts(_)
SortedTexts(S) ==
    IF S = { } THEN << >>
    ELSE LET least == CHOOSE x \in S : \A y \in S : x = y \/ TextLess(x, y)
         IN  << least >> \o SortedTexts(S \ { least })

\* get_available_constructions
GetAvailableConstructions(rows, col) ==
    IF col = NoneIdx THEN << >>
    ELSE SortedTexts({ Strip(rows[r][col + 1]) :
                         r \in { q \in 1..Len(rows) : col < Len(rows[q]) } }
                     \ { << >> })

\* select_constructions: the list chosen by one answer, << >> when the
\* prompt is shown again
ChosenConstructions(answer, constructions) ==
    LET sel == Strip(answer)
    IN  IF sel = << >> THEN << >>
        ELSE IF Lower(sel) = AllWord THEN constructions
        ELSE LET r == TermLoop(Split(sel, ","), Len(constructions), << >>)
                 chosen == DedupSort(r.indices)
             IN  [ i \in 1..Len(chosen) |-> constructions[chosen[i] + 1] ]

\* select_rows returns whatever was parsed
SelectRowsReturnsAlways(indices) == TRUE

\* select_rows: 'if selected_indices:', else the prompt is shown again
SelectRowsReturns(indices) == indices # << >>

\* main goes on whatever read_excel_file returned
NotDataNever(data) == FALSE

\* main: 'if not data:' after read_excel_file
NotData(data) == data = << >>

\* main: the indices of the rows kept by the pre-filter, in sheet order
KeptIndices(rows, col, selected) ==
    IF selected # NoneList /\ col # NoneIdx
    THEN FilterLoop(rows, PyRange(0, Len(rows)), col, selected)
    ELSE PyRange(0, Len(rows))

\* main: filtered_data
FilteredData(rows, col, selected) ==
    [ k \in 1..Len(KeptIndices(rows, col, selected)) |->
        rows[KeptIndices(rows, col, selected)[k] + 1] ]

\* main hands the positions in the filtered list on as they were picked
OriginalIndicesUntranslated(rows, col, selected, indices) == indices

\* main: the indices in the sheet of the rows chosen in the filtered data
OriginalIndices(rows, col, selected, indices) ==
    IF selected # NoneList /\ col # NoneIdx
    THEN LET kept == KeptIndices(rows, col, selected)
             hits == { k \in 1..Len(kept) : (k - 1) \in ToSet(indices) }
         IN  SortedOfSet({ kept[k] : k \in hits })
    ELSE indices

----------------------------------------------------------------------------
(* create_word_document: the table                                         *)
(* A row of the table is [kind, cells]: "empty" as add_table leaves it,    *)
(* "header" and "numbers" for the two header rows, "group" for a merged    *)
(* row holding a construction name, "data" for a row of the sheet.         *)

TABLE_HEADERS ==
    << << "No" >>, << "Name" >>, << "Location" >>, << "Photo" >>,
       << "Parameter" >>, << "Note" >> >>

COLUMN_NUMBERS ==
    << << "1" >>, << "2" >>, << "3" >>, << "4" >>, << "5" >>, << "6" >> >>

EmptyRow == [ kind |-> "empty", cells |-> [ i \in 1..6 |-> << >> ] ]

\* column_mapping.get(key)
MappingGet(mapping, key) ==
    IF key \in DOMAIN mapping THEN mapping[key] ELSE NoneIdx

\* the text written to a mapped cell of a data row
CellText(mapping, key, data_row) ==
    LET excel_col_idx == MappingGet(mapping, key)
    IN  IF excel_col_idx # NoneIdx /\ excel_col_idx < Len(data_row)
        THEN data_row[excel_col_idx + 1]
        ELSE << >>

\* the location cell filled from the mapping like the other cells
DataRowLocationMapped(mapping, data_row, counter) ==
    [ kind |-> "data",
      cells |-> << Numeral(counter), CellText(mapping, 1, data_row),
                   CellText(mapping, 2, data_row),
                   CellText(mapping, 3, data_row), CellText(mapping, 4, data_row),
                   CellText(mapping, 5, data_row) >> ]

\* a data row of the table: the sequence number, then the mapped cells;
\* the location cell is always empty
DataRow(mapping, data_row, counter) ==
    [ kind |-> "data",
      cells |-> << Numeral(counter), CellText(mapping, 1, data_row), << >>,
                   CellText(mapping, 3, data_row), CellText(mapping, 4, data_row),
                   CellText(mapping, 5, data_row) >> ]

\* the merged row of a construction name
GroupHeaderRow(name) == [ kind |-> "group", cells |-> << name >> ]

\* whether a group gets a header row: construction_name is not None
HasHeader(group) == group[1] # NoneText

\* the header rows of the groups are left out of the count
NumRowsTableNoGroupRows(indices, groups) == 2 + Len(indices)

\* num_rows_table
NumRowsTable(indices, groups) ==
    2 + Len(indices)
      + Cardinality({ k \in 1..Len(groups) : groups[k][1] # NoneText })

\* doc.add_table and the two header rows
NewTable(n) ==
    [ r \in 1..n |->
        IF r = 1 THEN [ kind |-> "header", cells |-> TABLE_HEADERS ]
        ELSE IF r = 2 THEN [ kind |-> "numbers", cells |-> COLUMN_NUMBERS ]
        ELSE EmptyRow ]

----------------------------------------------------------------------------
(* The save policy of create_word_document                                 *)

\* n in w decimal digits with leading zeros, as strftime renders a field
RECURSIVE ZeroPad(_, _)
ZeroPad(n, w) ==
    IF w = 0 THEN << >>
    ELSE ZeroPad(n \div 10, w - 1) \o << DigitChars[(n % 10) + 1] >>

\* datetime.strftime("%Y%m%d_%H%M%S") of a datetime given by its fields
Strftime(now) ==
    ZeroPad(now.year, 4) \o ZeroPad(now.month, 2) \o ZeroPad(now.day, 2)
        \o << "_" >>
        \o ZeroPad(now.hour, 2) \o ZeroPad(now.minute, 2)
        \o ZeroPad(now.second, 2)

\* position of the last occurrence of the character c in t, 0 when absent
LastPos(t, c) ==
    IF Contains(t, c)
    THEN CHOOSE i \in 1..Len(t) :
             t[i] = c /\ \A j \in (i + 1)..Len(t) : t[j] # c
    ELSE 0

\* str.rsplit(c, 1)
RSplitOnce(t, c) ==
    IF ~Contains(t, c) THEN << t >>
    ELSE << SubSeq(t, 1, LastPos(t, c) - 1),
            SubSeq(t, LastPos(t, c) + 1, Len(t)) >>

\* the alternate name appends the timestamp to the whole name
NewFilenameAppended(filename, timestamp) ==
    filename \o << "_" >> \o timestamp

\* the name used when the existing file cannot be deleted
NewFilename(filename, timestamp) ==
    LET name_parts == RSplitOnce(filename, ".")
    IN  IF Len(name_parts) = 2
        THEN name_parts[1] \o << "_" >> \o timestamp \o << "." >>
                 \o name_parts[2]
        ELSE filename \o << "_" >> \o timestamp

\* the sequence number stays where it is
NextRowCounterStuck(counter) == counter

\* row_counter += 1, once per data row
NextRowCounter(counter) == counter + 1

\* main: the name of the document, from the first and last selected index
FILENAME_PREFIX ==
    << "D", "e", "f", "e", "k", "t", "y", "_",
       "v", "y", "b", "o", "r", "k", "a", "_" >>

FILENAME_SUFFIX == << ".", "d", "o", "c", "x" >>

OutputFilename(indices) ==
    LET row_label ==
            IF Len(indices) = 1 THEN Numeral(indices[1] + 1)
            ELSE Numeral(indices[1] + 1) \o << "-" >>
                     \o Numeral(indices[Len(indices)] + 1)
    IN  FILENAME_PREFIX \o row_label \o FILENAME_SUFFIX

----------------------------------------------------------------------------
(* Inputs of the selection parser                                          *)

SelectionAlphabet == { "0", "1", "2", "-", ",", "x", " " }

TextsOver(alphabet, n) == UNION { [ 1..k -> alphabet ] : k \in 0..n }

ExtraSelections ==
    { << "a", "l", "l" >>, << " ", "A", "L", "l", " " >>,
      << "a", "l", "l", ",", "1" >>,
      << "1", "-", "2", ",", "1" >>, << "2", ",", "1", "-", "2" >>,
      << "0", "-", "2", ",", "x" >>, << "x", ",", "1", "-", "5" >>,
      << "2", "-", "1", ",", "2" >>, << "1", "-", "-", "2", ",", "1" >>,
      << "1", "-", "2", ",", "2", "-", "3" >>, << "3", ",", "x", ",", "1" >> }

Selections == TextsOver(SelectionAlphabet, MaxLen) \cup ExtraSelections

----------------------------------------------------------------------------
(* Inputs of the grouping and of the filter                                *)

RowValues ==
    { << >>,
      << << "b" >> >>,
      << << " ", "a" >> >>,
      << << " " >> >>,
      << << "B" >>, << "a", "b", " " >> >> }

\* the sheet of the grouping example: B, A, B and an empty cell
SheetExample == << << << "B" >> >>, << << "A" >> >>, << << "B" >> >>, << << >> >> >>

\* keys with a common prefix, a key that needs trimming, an upper-case key
SheetPrefix ==
    << << << "a", "b" >> >>, << << "a" >> >>, << << " ", "a", "b", " " >> >>,
       << << "B" >> >> >>

\* the group column is the second one; the second row is too short for it
SheetTwoColumns ==
    << << << "c" >>, << "b" >> >>, << << "a" >> >>, << << "c" >>, << " " >> >>,
       << << >>, << "a", " " >> >> >>

ExtraSheets == { SheetExample, SheetPrefix, SheetTwoColumns }

SmallSheets == UNION { [ 1..n -> RowValues ] : n \in 0..MaxRows }

Sheets == SmallSheets \cup ExtraSheets

\* lists of row indices of a sheet of n rows: index n is one past the end
IndexLists(n, maxLen) == UNION { [ 1..k -> 0..n ] : k \in 0..maxLen }

ConstructionCols == { NoneIdx, 0, 1 }

SelectedChoices ==
    { NoneList,
      << >>,
      << << "a" >> >>,
      << << "B" >>, << "b" >> >>,
      << << "a" >>, << "a", "b" >> >>,
      << << >>, << "A" >> >> }

----------------------------------------------------------------------------
(* Inputs of the header matcher                                            *)

HeaderTexts ==
    { << >>,
      << "A" >>,
      << "b" >>,
      << "a", " ", " ", "B" >>,
      << "b", "a" >>,
      << "c", " " >> }

SearchTexts ==
    { << "a" >>,
      << "A", " ", "b" >>,
      << "a", "b" >>,
      << "c" >> }

HeaderLists == UNION { [ 1..n -> HeaderTexts ] : n \in 0..MaxHeaders }

SearchLists == UNION { [ 1..n -> SearchTexts ] : n \in 0..MaxNames }

----------------------------------------------------------------------------
(* Inputs of the document builder                                          *)

BuildSheets == ExtraSheets

\* the dict column_mapping, keys 1..5: a function of 1..5
ColumnMappings ==
    { << >>,
      << NoneIdx, NoneIdx, NoneIdx, NoneIdx, NoneIdx >>,
      << 0, 1, 1, NoneIdx, 2 >> }

\* names given to the document: the one main gives to a selection of one
\* row, and a name with a dot before its extension
OutputFilenames ==
    { OutputFilename(<< 0 >>),
      << "a", ".", "b", ".", "d", "o", "c", "x" >> }

\* what datetime.now() may return
Clocks ==
    { [ year |-> 2026, month |-> 11, day |-> 2,
        hour |-> 8, minute |-> 5, second |-> 9 ],
      [ year |-> 1999, month |-> 12, day |-> 31,
        hour |-> 23, minute |-> 59, second |-> 59 ] }

\* how the file system answers unlink() and save()
UnlinkResults == { "ok", "PermissionError", "OSError" }

SaveResults == { "ok", "PermissionError", "OSError" }

----------------------------------------------------------------------------
(* Inputs of a run of main: the workbooks in DATA_DIR and the answers      *)

\* a header that matches the fourth defect-name candidate
H_DEFECT == DEFECT_NAMES[4]

\* a header that matches the third group-column candidate
H_CONSTRUCTION == CONSTRUCTION_NAMES[3]

\* a header that matches the third photo candidate
H_PHOTO == PHOTO_NAMES[3]

\* a header that matches the first note candidate
H_NOTE == NOTE_NAMES[1]

\* one sheet: defect, group, photo and note columns; groups B, A, B and a
\* row without group
WbExample ==
    [ readable |-> TRUE,
      sheetnames |-> << << "S", "1" >> >>,
      sheets |-> << << << H_DEFECT, H_CONSTRUCTION, H_PHOTO, H_NOTE >>,
                       << << "a" >>, << "B" >>, << "1" >>, NoneText >>,
                       << << "b" >>, << "A" >>, NoneText, << "c" >> >>,
                       << << "c" >>, << " ", "B" >>, << "2" >>, NoneText >>,
                       << << "a", "b" >>, NoneText, NoneText, NoneText >> >> >> ]

\* one sheet without group column
WbNoGroup ==
    [ readable |-> TRUE,
      sheetnames |-> << << "S", "1" >> >>,
      sheets |-> << << << H_PHOTO, H_DEFECT >>,
                       << << "1" >>, << "a" >> >>,
                       << NoneText, << "b" >> >>,
                       << << "3" >>, << "c" >> >> >> >> ]

\* two sheets: the first has no row at all
WbTwoSheets ==
    [ readable |-> TRUE,
      sheetnames |-> << << "S", "1" >>, << "S", "2" >> >>,
      sheets |-> << << >>,
                    << << H_DEFECT, H_CONSTRUCTION >>,
                       << << "a" >>, << "A" >> >>,
                       << << "b" >>, << "A" >> >> >> >> ]

\* one sheet that has its header row only
WbHeaderOnly ==
    [ readable |-> TRUE,
      sheetnames |-> << << "S", "1" >> >>,
      sheets |-> << << << H_DEFECT, H_NOTE >> >> >> ]

\* a file that load_workbook cannot open
WbCorrupt == [ readable |-> FALSE, sheetnames |-> << >>, sheets |-> << >> ]

\* what get_excel_files may return
FileLists ==
    { << >>,
      << WbExample >>,
      << WbCorrupt, WbNoGroup >>,
      << WbTwoSheets >>,
      << WbHeaderOnly >> }

\* the workbooks and sheet names of a direct call of read_excel_file
LoadWorkbooks == { WbExample, WbTwoSheets, WbCorrupt }

SheetNameArgs == { NoneText, << "S", "2" >>, << "Z" >> }

\* the files that may be in OUTPUT_DIR when main starts
ExistingOutputs ==
    { OutputFilename(<< 0 >>), OutputFilename(<< 0, 2 >>),
      OutputFilename(<< 0, 3 >>), OutputFilename(<< 1 >>) }

\* how mkdir answers create_directories
MkdirResults == { "ok", "OSError" }

\* the answers to the prompts
FileAnswers == { << "1" >>, << "2" >>, << "0" >>, << "x" >>, KeyboardInterrupt }

SheetAnswers == { << >>, << "2" >>, << "9" >>, << "x" >>, KeyboardInterrupt }

GroupAnswers ==
    { << >>, << "a", "l", "l" >>, << "2" >>, << "1", ",", "2" >>, << "x" >>,
      KeyboardInterrupt }

RowAnswers ==
    { << >>, << "A", "L", "L" >>, << "1" >>, << "2", "-", "3" >>,
      << "3", ",", "1" >>, << "9" >>, << "x", ",", "0" >>, KeyboardInterrupt }

----------------------------------------------------------------------------
(* The calls                                                               *)

ParseIdle == selection = << >> /\ total_rows = 0 /\ selected_indices = << >>

RowsIdle ==
    /\ data_rows = << >> /\ row_indices = << >> /\ construction_col = NoneIdx
    /\ selected_constructions = NoneList /\ filtered_indices = << >>
    /\ construction_groups = << >>

BuildIdle ==
    /\ column_mapping = << >> /\ num_rows_table = 0 /\ table = << >>
    /\ current_table_row = 0 /\ row_counter = 0 /\ group_pos = 0
    /\ member_pos = 0

FindIdle == headers = << >> /\ search_names = << >> /\ found_index = NoneIdx

SaveIdle ==
    /\ output_filename = << >> /\ output_dir = { } /\ output_path = NoneText
    /\ unlink_result = "unset" /\ save_result = "unset"
    /\ build_result = NoneText

MainIdle ==
    /\ caller = "none" /\ excel_files = << >> /\ selected_file = NoneIdx
    /\ workbook = "unopened" /\ sheet_name = NoneText /\ load_error = "none"
    /\ filtered_data = << >> /\ typed = << >> /\ interrupted = "none"
    /\ printed = { } /\ exit_status = NoneIdx

InitParse ==
    /\ pc = "parse"
    /\ raised = FALSE
    /\ selection \in Selections
    /\ total_rows \in 0..MaxTotal
    /\ selected_indices = << >>
    /\ RowsIdle /\ BuildIdle /\ FindIdle /\ SaveIdle /\ MainIdle

parse_row_selection ==
    /\ pc = "parse"
    /\ LET r == ParseRowSelection(selection, total_rows)
       IN  /\ raised' = r.raised
           /\ selected_indices' = r.indices
           /\ pc' = IF r.raised THEN "parse_raised" ELSE "parsed"
    /\ UNCHANGED << selection, total_rows, rowVars, buildVars, findVars,
                    saveVars, mainVars >>

NextParse == parse_row_selection

SpecParse == InitParse /\ [][NextParse]_vars

InitGroup ==
    /\ pc = "group"
    /\ raised = FALSE
    /\ data_rows \in Sheets
    /\ row_indices \in IndexLists(Len(data_rows), MaxSel)
    /\ construction_col \in ConstructionCols
    /\ selected_constructions = NoneList
    /\ filtered_indices = << >>
    /\ construction_groups = << >>
    /\ ParseIdle /\ BuildIdle /\ FindIdle /\ SaveIdle /\ MainIdle

group_rows_by_construction ==
    /\ pc = "group"
    /\ construction_groups' =
           GroupRowsByConstruction(data_rows, row_indices, construction_col)
    /\ pc' = "grouped"
    /\ UNCHANGED << raised, parseVars, data_rows, row_indices, construction_col,
                    selected_constructions, filtered_indices, buildVars,
                    findVars, saveVars,
                    mainVars >>

NextGroup == group_rows_by_construction

SpecGroup == InitGroup /\ [][NextGroup]_vars

InitFilter ==
    /\ pc = "filter"
    /\ raised = FALSE
    /\ data_rows \in Sheets
    /\ row_indices \in IndexLists(Len(data_rows), MaxFilterSel)
    /\ construction_col \in ConstructionCols
    /\ selected_constructions \in SelectedChoices
    /\ filtered_indices = << >>
    /\ construction_groups = << >>
    /\ ParseIdle /\ BuildIdle /\ FindIdle /\ SaveIdle /\ MainIdle

filter_rows_by_constructions ==
    /\ pc = "filter"
    /\ filtered_indices' =
           FilterRowsByConstructions(data_rows, row_indices, construction_col,
                                     selected_constructions)
    /\ pc' = "filtered"
    /\ UNCHANGED << raised, parseVars, data_rows, row_indices, construction_col,
                    selected_constructions, construction_groups, buildVars,
                    findVars, saveVars,
                    mainVars >>

NextFilter == filter_rows_by_constructions

SpecFilter == InitFilter /\ [][NextFilter]_vars

InitFind ==
    /\ pc = "find"
    /\ raised = FALSE
    /\ headers \in HeaderLists
    /\ search_names \in SearchLists
    /\ found_index = NoneIdx
    /\ ParseIdle /\ RowsIdle /\ BuildIdle /\ SaveIdle /\ MainIdle

find_column_index ==
    /\ pc = "find"
    /\ found_index' = FindColumnIndex(headers, search_names)
    /\ pc' = "found"
    /\ UNCHANGED << raised, parseVars, rowVars, buildVars, headers,
                    search_names, saveVars,
                    mainVars >>

NextFind == find_column_index

SpecFind == InitFind /\ [][NextFind]_vars

InitBuild ==
    /\ pc = "build"
    /\ raised = FALSE
    /\ data_rows \in BuildSheets
    /\ row_indices \in IndexLists(Len(data_rows), MaxBuildSel)
    /\ construction_col \in ConstructionCols
    /\ column_mapping \in ColumnMappings
    /\ selected_constructions = NoneList
    /\ filtered_indices = << >>
    /\ construction_groups = << >>
    /\ num_rows_table = 0 /\ table = << >> /\ current_table_row = 0
    /\ row_counter = 0 /\ group_pos = 0 /\ member_pos = 0
    /\ output_filename \in OutputFilenames
    /\ output_dir \in { { }, { output_filename } }
    /\ output_path = NoneText
    /\ unlink_result = "unset" /\ save_result = "unset"
    /\ build_result = NoneText
    /\ ParseIdle /\ FindIdle /\ MainIdle

\* the groups, the allocation of the table and its two header rows
create_word_document_begin ==
    /\ pc = "build"
    /\ LET groups == GroupRowsByConstruction(data_rows, row_indices,
                                             construction_col)
       IN  /\ construction_groups' = groups
           /\ num_rows_table' = NumRowsTable(row_indices, groups)
           /\ table' = NewTable(NumRowsTable(row_indices, groups))
    /\ current_table_row' = 2
    /\ row_counter' = 1
    /\ group_pos' = 1
    /\ member_pos' = 0
    /\ pc' = "groups"
    /\ UNCHANGED << raised, parseVars, data_rows, row_indices, construction_col,
                    selected_constructions, filtered_indices, column_mapping,
                    findVars, saveVars,
                    mainVars >>

\* one pass of the outer loop up to the inner loop: the merged header row
\* of a group whose name is not None
create_word_document_group ==
    /\ pc = "groups"
    /\ group_pos <= Len(construction_groups)
    /\ LET group == construction_groups[group_pos]
           next_pos == IF group[2] = << >> THEN group_pos + 1 ELSE group_pos
           next_pc == IF group[2] = << >> THEN "groups" ELSE "rows"
       IN  IF HasHeader(group)
           THEN IF current_table_row < Len(table)
                THEN /\ table' = [ table EXCEPT ![current_table_row + 1] =
                                       GroupHeaderRow(group[1]) ]
                     /\ current_table_row' = current_table_row + 1
                     /\ group_pos' = next_pos
                     /\ member_pos' = 1
                     /\ pc' = next_pc
                     /\ UNCHANGED raised
                ELSE /\ raised' = TRUE
                     /\ pc' = "build_failed"
                     /\ UNCHANGED << table, current_table_row, group_pos,
                                     member_pos >>
           ELSE /\ group_pos' = next_pos
                /\ member_pos' = 1
                /\ pc' = next_pc
                /\ UNCHANGED << raised, table, current_table_row >>
    /\ UNCHANGED << parseVars, rowVars, column_mapping, num_rows_table,
                    row_counter, findVars, saveVars,
                    mainVars >>

\* one pass of the inner loop: a data row; an index past the sheet or a
\* cursor past the table raises IndexError, caught by the outer except
create_word_document_row ==
    /\ pc = "rows"
    /\ LET members == construction_groups[group_pos][2]
           data_row_idx == members[member_pos]
           last == member_pos = Len(members)
       IN  IF current_table_row < Len(table) /\ data_row_idx < Len(data_rows)
           THEN /\ table' = [ table EXCEPT ![current_table_row + 1] =
                                  DataRow(column_mapping,
                                          data_rows[data_row_idx + 1],
                                          row_counter) ]
                /\ row_counter' = NextRowCounter(row_counter)
                /\ current_table_row' = current_table_row + 1
                /\ member_pos' = IF last THEN 0 ELSE member_pos + 1
                /\ group_pos' = IF last THEN group_pos + 1 ELSE group_pos
                /\ pc' = IF last THEN "groups" ELSE "rows"
                /\ UNCHANGED raised
           ELSE /\ raised' = TRUE
                /\ pc' = "build_failed"
                /\ UNCHANGED << table, row_counter, current_table_row,
                                member_pos, group_pos >>
    /\ UNCHANGED << parseVars, rowVars, column_mapping, num_rows_table,
                    findVars, saveVars,
                    mainVars >>

\* the loops are over: borders, then the path the document is saved at; an
\* existing file is deleted first, a PermissionError of the deletion gives
\* the name with the timestamp, any other error of it reaches the outer
\* except
create_word_document_path ==
    /\ pc = "groups"
    /\ group_pos > Len(construction_groups)
    /\ IF output_filename \in output_dir
       THEN \E result \in UnlinkResults :
                /\ unlink_result' = result
                /\ output_dir' = IF result = "ok"
                                 THEN output_dir \ { output_filename }
                                 ELSE output_dir
                /\ IF result = "PermissionError"
                   THEN \E now \in Clocks :
                            output_path' =
                                NewFilename(output_filename, Strftime(now))
                   ELSE output_path' = output_filename
                /\ pc' = IF result = "OSError" THEN "build_failed" ELSE "save"
                /\ raised' = (result = "OSError")
       ELSE /\ unlink_result' = "absent"
            /\ output_path' = output_filename
            /\ pc' = "save"
            /\ UNCHANGED << raised, output_dir >>
    /\ UNCHANGED << parseVars, rowVars, buildVars, findVars, output_filename,
                    save_result, build_result, mainVars >>

\* doc.save(): the path is returned when the save succeeds, a PermissionError
\* of the save returns None, any other error of it reaches the outer except
create_word_document_save ==
    /\ pc = "save"
    /\ \E result \in SaveResults :
           /\ save_result' = result
           /\ output_dir' = IF result = "ok"
                            THEN output_dir \cup { output_path }
                            ELSE output_dir
           /\ build_result' = IF result = "ok" THEN output_path ELSE NoneText
           /\ pc' = CASE result = "ok" -> "saved"
                      [] result = "PermissionError" -> "save_failed"
                      [] OTHER -> "build_failed"
           /\ raised' = (result = "OSError")
    /\ UNCHANGED << parseVars, rowVars, buildVars, findVars, output_filename,
                    output_path, unlink_result, mainVars >>

NextBuild ==
    \/ create_word_document_begin
    \/ create_word_document_group
    \/ create_word_document_row
    \/ create_word_document_path
    \/ create_word_document_save

SpecBuild == InitBuild /\ [][NextBuild]_vars

----------------------------------------------------------------------------
(* A run of main, and a direct call of read_excel_file                     *)

InitMain ==
    /\ pc = "main"
    /\ raised = FALSE
    /\ caller = "main"
    /\ excel_files \in FileLists
    /\ selected_file = NoneIdx
    /\ workbook = "unopened" /\ sheet_name = NoneText /\ load_error = "none"
    /\ filtered_data = << >> /\ typed = << >> /\ interrupted = "none"
    /\ printed = { } /\ exit_status = NoneIdx
    /\ output_filename = << >>
    /\ output_dir \in { { }, ExistingOutputs }
    /\ output_path = NoneText
    /\ unlink_result = "unset" /\ save_result = "unset"
    /\ build_result = NoneText
    /\ ParseIdle /\ RowsIdle /\ BuildIdle /\ FindIdle

InitLoad ==
    /\ pc = "load"
    /\ raised = FALSE
    /\ caller = "direct"
    /\ \E wb \in LoadWorkbooks : excel_files = << wb >>
    /\ selected_file = 0
    /\ workbook = "unopened"
    /\ sheet_name \in SheetNameArgs
    /\ load_error = "none"
    /\ filtered_data = << >> /\ typed = << >> /\ interrupted = "none"
    /\ printed = { } /\ exit_status = NoneIdx
    /\ ParseIdle /\ RowsIdle /\ BuildIdle /\ FindIdle /\ SaveIdle

InitRun == InitMain \/ InitLoad

\* main up to the file prompt: an exception of create_directories leaves
\* main and ends the process with status 1; without files select_excel_file
\* returns None and main returns
main_begin ==
    /\ pc = "main"
    /\ \E dirs \in MkdirResults :
           /\ pc' = IF dirs = "OSError" \/ excel_files = << >>
                    THEN "exit" ELSE "select_file"
           /\ exit_status' = IF dirs = "OSError" THEN 1
                             ELSE IF excel_files = << >> THEN 0
                             ELSE NoneIdx
           /\ printed' = printed \cup
                  { IF dirs = "OSError" THEN "critical_error"
                    ELSE IF excel_files = << >> THEN "file_not_selected"
                    ELSE "files_listed" }
    /\ UNCHANGED << raised, selection, total_rows, selected_indices,
                    data_rows, row_indices, construction_col,
                    selected_constructions, filtered_indices,
                    construction_groups, column_mapping, num_rows_table,
                    table, current_table_row, row_counter, group_pos,
                    member_pos, headers, search_names, found_index,
                    output_filename, output_dir, output_path, unlink_result,
                    save_result, build_result, caller, excel_files,
                    selected_file, workbook, sheet_name, load_error,
                    filtered_data, typed, interrupted >>

\* one answer to the file prompt; Ctrl-C returns None and main returns
select_excel_file ==
    /\ pc = "select_file"
    /\ \E answer \in FileAnswers :
           LET interrupt == answer = KeyboardInterrupt
               valid == /\ ~interrupt
                        /\ IntOk(answer)
                        /\ 0 <= IntOf(answer) - 1
                        /\ IntOf(answer) - 1 < Len(excel_files)
           IN  /\ typed' = answer
               /\ selected_file' = IF valid THEN IntOf(answer) - 1 ELSE NoneIdx
               /\ interrupted' = IF interrupt THEN "file" ELSE interrupted
               /\ pc' = IF interrupt THEN "exit"
                        ELSE IF valid THEN "load" ELSE "select_file"
               /\ exit_status' = IF interrupt THEN 0 ELSE NoneIdx
               /\ printed' = printed \cup
                      { IF interrupt THEN "file_not_selected"
                        ELSE IF valid THEN "file_selected"
                        ELSE "wrong_file_number" }
    /\ UNCHANGED << raised, selection, total_rows, selected_indices,
                    data_rows, row_indices, construction_col,
                    selected_constructions, filtered_indices,
                    construction_groups, column_mapping, num_rows_table,
                    table, current_table_row, row_counter, group_pos,
                    member_pos, headers, search_names, found_index,
                    output_filename, output_dir, output_path, unlink_result,
                    save_result, build_result, caller, excel_files, workbook,
                    sheet_name, load_error, filtered_data >>

\* load_workbook and the sheet: a workbook that cannot be opened and a
\* sheet name that is not in it raise inside the try
read_excel_file_open ==
    /\ pc = "load"
    /\ LET wb == excel_files[selected_file + 1]
           name == IF sheet_name = NoneText THEN wb.sheetnames[1]
                   ELSE sheet_name
           error == IF ~wb.readable THEN "InvalidFileException"
                    ELSE IF SheetPos(wb, name) = 0 THEN "KeyError"
                    ELSE "none"
           result == ErrorReturn(sheet_name)
       IN  /\ workbook' = IF wb.readable THEN "open" ELSE workbook
           /\ load_error' = error
           /\ sheet_name' = IF error = "none" THEN name ELSE result.sheet_name
           /\ data_rows' = IF error = "none" THEN data_rows ELSE result.data
           /\ column_mapping' = IF error = "none" THEN column_mapping
                                ELSE result.column_mapping
           /\ construction_col' = IF error = "none" THEN construction_col
                                  ELSE result.construction_col
           /\ printed' = IF error = "none" THEN printed
                         ELSE printed \cup { "read_error" }
           /\ pc' = IF error # "none" THEN "loaded"
                    ELSE IF Len(wb.sheetnames) > 1 THEN "sheet_prompt"
                    ELSE "load_rows"
    /\ UNCHANGED << raised, selection, total_rows, selected_indices,
                    row_indices, selected_constructions, filtered_indices,
                    construction_groups, num_rows_table, table,
                    current_table_row, row_counter, group_pos, member_pos,
                    headers, search_names, found_index, output_filename,
                    output_dir, output_path, unlink_result, save_result,
                    build_result, caller, excel_files, selected_file,
                    filtered_data, typed, interrupted, exit_status >>

\* the answer to the sheet prompt; Ctrl-C is no Exception: it leaves
\* read_excel_file, and main with it, and the process ends with status 0
read_excel_file_sheet ==
    /\ pc = "sheet_prompt"
    /\ \E answer \in SheetAnswers :
           LET interrupt == answer = KeyboardInterrupt
               wb == excel_files[selected_file + 1]
           IN  /\ typed' = answer
               /\ raised' = interrupt
               /\ interrupted' = IF interrupt THEN "sheet" ELSE interrupted
               /\ sheet_name' = IF interrupt THEN sheet_name
                                ELSE SheetAfterChoice(wb, sheet_name, answer)
               /\ printed' = IF interrupt THEN printed \cup { "interrupted" }
                             ELSE printed
               /\ exit_status' = IF interrupt /\ caller = "main" THEN 0
                                 ELSE exit_status
               /\ pc' = IF ~interrupt THEN "load_rows"
                        ELSE IF caller = "main" THEN "exit"
                        ELSE "load_interrupted"
    /\ UNCHANGED << selection, total_rows, selected_indices, data_rows,
                    row_indices, construction_col, selected_constructions,
                    filtered_indices, construction_groups, column_mapping,
                    num_rows_table, table, current_table_row, row_counter,
                    group_pos, member_pos, headers, search_names,
                    found_index, output_filename, output_dir, output_path,
                    unlink_result, save_result, build_result, caller,
                    excel_files, selected_file, workbook, load_error,
                    filtered_data >>

\* the header row, the mapping, the data rows and workbook.close(); a sheet
\* without a first row raises StopIteration inside the try
read_excel_file_rows ==
    /\ pc = "load_rows"
    /\ LET wb == excel_files[selected_file + 1]
           sheet == wb.sheets[SheetPos(wb, sheet_name)]
           result == IF sheet = << >> THEN ErrorReturn(sheet_name)
                     ELSE LoadReturn(sheet, sheet_name)
       IN  /\ load_error' = IF sheet = << >> THEN "StopIteration" ELSE "none"
           /\ headers' = IF sheet = << >> THEN headers ELSE HeadersOf(sheet)
           /\ data_rows' = result.data
           /\ sheet_name' = result.sheet_name
           /\ column_mapping' = result.column_mapping
           /\ construction_col' = result.construction_col
           /\ workbook' = IF sheet = << >> THEN workbook ELSE "closed"
           /\ printed' = printed \cup
                  { IF sheet = << >> THEN "read_error" ELSE "loaded" }
           /\ pc' = "loaded"
    /\ UNCHANGED << raised, selection, total_rows, selected_indices,
                    row_indices, selected_constructions, filtered_indices,
                    construction_groups, num_rows_table, table,
                    current_table_row, row_counter, group_pos, member_pos,
                    search_names, found_index, output_filename, output_dir,
                    output_path, unlink_result, save_result, build_result,
                    caller, excel_files, selected_file, filtered_data, typed,
                    interrupted, exit_status >>

\* main after read_excel_file: without data the run ends
main_loaded ==
    /\ pc = "loaded"
    /\ caller = "main"
    /\ pc' = IF NotData(data_rows) THEN "exit" ELSE "select_constructions"
    /\ exit_status' = IF NotData(data_rows) THEN 0 ELSE NoneIdx
    /\ printed' = IF NotData(data_rows) THEN printed \cup { "load_failed" }
                  ELSE printed
    /\ UNCHANGED << raised, selection, total_rows, selected_indices,
                    data_rows, row_indices, construction_col,
                    selected_constructions, filtered_indices,
                    construction_groups, column_mapping, num_rows_table,
                    table, current_table_row, row_counter, group_pos,
                    member_pos, headers, search_names, found_index,
                    output_filename, output_dir, output_path, unlink_result,
                    save_result, build_result, caller, excel_files,
                    selected_file, workbook, sheet_name, load_error,
                    filtered_data, typed, interrupted >>

\* select_constructions up to its prompt: None without group column or
\* without any construction in the data
select_constructions_begin ==
    /\ pc = "select_constructions"
    /\ LET none == \/ construction_col = NoneIdx
                   \/ GetAvailableConstructions(data_rows, construction_col) = << >>
       IN  /\ selected_constructions' = NoneList
           /\ pc' = IF none THEN "constructions_returned"
                    ELSE "constructions_prompt"
           /\ printed' = printed \cup
                  { IF none THEN "no_constructions"
                    ELSE "constructions_listed" }
    /\ UNCHANGED << raised, selection, total_rows, selected_indices,
                    data_rows, row_indices, construction_col,
                    filtered_indices, construction_groups, column_mapping,
                    num_rows_table, table, current_table_row, row_counter,
                    group_pos, member_pos, headers, search_names,
                    found_index, output_filename, output_dir, output_path,
                    unlink_result, save_result, build_result, caller,
                    excel_files, selected_file, workbook, sheet_name,
                    load_error, filtered_data, typed, interrupted,
                    exit_status >>

\* one answer to the group prompt; Ctrl-C returns None, which main takes
\* as no filter
select_constructions_prompt ==
    /\ pc = "constructions_prompt"
    /\ \E answer \in GroupAnswers :
           LET interrupt == answer = KeyboardInterrupt
               chosen == IF interrupt THEN << >>
                         ELSE ChosenConstructions(
                                  answer,
                                  GetAvailableConstructions(data_rows,
                                                            construction_col))
           IN  /\ typed' = answer
               /\ interrupted' = IF interrupt THEN "group" ELSE interrupted
               /\ selected_constructions' =
                      IF chosen = << >> THEN NoneList ELSE chosen
               /\ pc' = IF interrupt \/ chosen # << >>
                        THEN "constructions_returned"
                        ELSE "constructions_prompt"
               /\ printed' = printed \cup
                      { IF interrupt THEN "cancelled"
                        ELSE IF chosen # << >> THEN "constructions_selected"
                        ELSE "no_construction_try_again" }
    /\ UNCHANGED << raised, selection, total_rows, selected_indices,
                    data_rows, row_indices, construction_col,
                    filtered_indices, construction_groups, column_mapping,
                    num_rows_table, table, current_table_row, row_counter,
                    group_pos, member_pos, headers, search_names,
                    found_index, output_filename, output_dir, output_path,
                    unlink_result, save_result, build_result, caller,
                    excel_files, selected_file, workbook, sheet_name,
                    load_error, filtered_data, exit_status >>

\* main: the pre-filter by the chosen constructions; the run ends when no
\* row is left, else select_rows shows its prompt
main_prefilter ==
    /\ pc = "constructions_returned"
    /\ LET rows == FilteredData(data_rows, construction_col,
                                selected_constructions)
       IN  /\ filtered_data' = rows
           /\ pc' = IF rows = << >> THEN "exit" ELSE "select_rows"
           /\ exit_status' = IF rows = << >> THEN 0 ELSE NoneIdx
           /\ printed' = IF rows = << >> THEN printed \cup { "filtered_empty" }
                         ELSE printed
    /\ UNCHANGED << raised, selection, total_rows, selected_indices,
                    data_rows, row_indices, construction_col,
                    selected_constructions, filtered_indices,
                    construction_groups, column_mapping, num_rows_table,
                    table, current_table_row, row_counter, group_pos,
                    member_pos, headers, search_names, found_index,
                    output_filename, output_dir, output_path, unlink_result,
                    save_result, build_result, caller, excel_files,
                    selected_file, workbook, sheet_name, load_error, typed,
                    interrupted >>

\* one answer to the row prompt: an empty answer and an expression without
\* any valid index show the prompt again; Ctrl-C returns []
select_rows ==
    /\ pc = "select_rows"
    /\ \E answer \in RowAnswers :
           LET interrupt == answer = KeyboardInterrupt
               sel == IF interrupt THEN << >> ELSE Strip(answer)
               r == ParseRowSelection(sel, Len(filtered_data))
           IN  /\ typed' = answer
               /\ interrupted' = IF interrupt THEN "rows" ELSE interrupted
               /\ selection' = IF sel = << >> THEN selection ELSE sel
               /\ total_rows' = IF sel = << >> THEN total_rows
                                ELSE Len(filtered_data)
               /\ selected_indices' = IF interrupt THEN << >>
                                      ELSE IF sel = << >> THEN selected_indices
                                      ELSE r.indices
               /\ raised' = (sel # << >> /\ r.raised)
               /\ exit_status' = IF sel # << >> /\ r.raised THEN 1
                                 ELSE NoneIdx
               /\ pc' = IF interrupt THEN "rows_returned"
                        ELSE IF sel = << >> THEN "select_rows"
                        ELSE IF r.raised THEN "exit"
                        ELSE IF SelectRowsReturns(r.indices) THEN "rows_returned"
                        ELSE "select_rows"
               /\ printed' = printed \cup
                      { IF interrupt THEN "cancelled"
                        ELSE IF sel = << >> THEN "enter_rows"
                        ELSE IF r.raised THEN "critical_error"
                        ELSE IF SelectRowsReturns(r.indices) THEN "rows_selected"
                        ELSE "no_rows_try_again" }
    /\ UNCHANGED << data_rows, row_indices, construction_col,
                    selected_constructions, filtered_indices,
                    construction_groups, column_mapping, num_rows_table,
                    table, current_table_row, row_counter, group_pos,
                    member_pos, headers, search_names, found_index,
                    output_filename, output_dir, output_path, unlink_result,
                    save_result, build_result, caller, excel_files,
                    selected_file, workbook, sheet_name, load_error,
                    filtered_data >>

\* main after select_rows: without a selection the run ends; else the
\* indices are translated to the sheet and the document is named
main_selected ==
    /\ pc = "rows_returned"
    /\ LET indices == OriginalIndices(data_rows, construction_col,
                                      selected_constructions, selected_indices)
       IN  /\ row_indices' = IF selected_indices = << >> THEN row_indices
                             ELSE indices
           /\ output_filename' = IF selected_indices = << >> THEN output_filename
                                 ELSE OutputFilename(indices)
           /\ pc' = IF selected_indices = << >> THEN "exit" ELSE "build"
           /\ exit_status' = IF selected_indices = << >> THEN 0 ELSE NoneIdx
           /\ printed' = IF selected_indices = << >>
                         THEN printed \cup { "no_rows_selected" }
                         ELSE printed
    /\ UNCHANGED << raised, selection, total_rows, selected_indices,
                    data_rows, construction_col, selected_constructions,
                    filtered_indices, construction_groups, column_mapping,
                    num_rows_table, table, current_table_row, row_counter,
                    group_pos, member_pos, headers, search_names,
                    found_index, output_dir, output_path, unlink_result,
                    save_result, build_result, caller, excel_files,
                    selected_file, workbook, sheet_name, load_error,
                    filtered_data, typed, interrupted >>

\* main after create_word_document: the document is opened or the failure
\* is printed; main returns and the process ends with status 0
main_finish ==
    /\ pc \in { "saved", "save_failed", "build_failed" }
    /\ caller = "main"
    /\ pc' = "exit"
    /\ exit_status' = 0
    /\ printed' = printed \cup
           { IF build_result # NoneText THEN "done" ELSE "document_failed" }
    /\ UNCHANGED << raised, selection, total_rows, selected_indices,
                    data_rows, row_indices, construction_col,
                    selected_constructions, filtered_indices,
                    construction_groups, column_mapping, num_rows_table,
                    table, current_table_row, row_counter, group_pos,
                    member_pos, headers, search_names, found_index,
                    output_filename, output_dir, output_path, unlink_result,
                    save_result, build_result, caller, excel_files,
                    selected_file, workbook, sheet_name, load_error,
                    filtered_data, typed, interrupted >>

NextRun ==
    \/ main_begin
    \/ select_excel_file
    \/ read_excel_file_open
    \/ read_excel_file_sheet
    \/ read_excel_file_rows
    \/ main_loaded
    \/ select_constructions_begin
    \/ select_constructions_prompt
    \/ main_prefilter
    \/ select_rows
    \/ main_selected
    \/ create_word_document_begin
    \/ create_word_document_group
    \/ create_word_document_row
    \/ create_word_document_path
    \/ create_word_document_save
    \/ main_finish

SpecRun == InitRun /\ [][NextRun]_vars

----------------------------------------------------------------------------
(* Claims about parse_row_selection, checked under SpecParse               *)

IsAscending(s) == \A i \in 1..(Len(s) - 1) : s[i] < s[i + 1]

\* C1: whatever the expression holds (single numbers, ranges, overlapping
\* and malformed terms) and whatever total >= 0 is, the returned list is
\* strictly ascending (so free of duplicates) and each of its elements i
\* satisfies 0 <= i < total.
C1_AscendingWithinTotal ==
    pc = "parsed" =>
        /\ IsAscending(selected_indices)
        /\ \A i \in 1..Len(selected_indices) :
               0 <= selected_indices[i] /\ selected_indices[i] < total_rows

\* an expression mixing a range, a malformed term and overlap, with a result
C1_Witness ==
    /\ pc = "parsed"
    /\ selection = << "1", "-", "2", ",", "2", "-", "3" >>
    /\ total_rows = 3
    /\ selected_indices = << 0, 1, 2 >>

\* C2: the expression "a-b", a and b numerals of the grammar's INT, gives
\* exactly the indices i with max(a-1, 0) <= i < min(b, total), ascending:
\* bounds outside the rows are clamped, and an end below the start gives the
\* empty list, with no exception.
C2_RangeClamped ==
    pc \in { "parsed", "parse_raised" } =>
        \A a, b \in 0..MaxNum :
            selection = Numeral(a) \o << "-" >> \o Numeral(b) =>
                /\ pc = "parsed"
                /\ selected_indices =
                       SortedOfSet({ i \in 0..(total_rows - 1) :
                                        Max(a - 1, 0) <= i /\ i < Min(b, total_rows) })

\* "0-2" over one row: start and end are both clamped
C2_Witness ==
    /\ pc = "parsed"
    /\ selection = << "0", "-", "2" >>
    /\ total_rows = 1
    /\ selected_indices = << 0 >>

\* "2-1": an end below the start selects nothing and raises nothing
C2_WitnessReversed ==
    /\ pc = "parsed"
    /\ selection = << "2", "-", "1" >>
    /\ total_rows = 3
    /\ selected_indices = << >>

\* the indices the claim gives one term of the expression
TermIndices(part0, total) ==
    LET part == Strip(part0)
    IN  IF Contains(part, "-")
        THEN LET a == SplitOnce(part, "-")[1]
                 b == SplitOnce(part, "-")[2]
             IN  IF IntOk(a) /\ IntOk(b)
                 THEN { i \in 0..(total - 1) :
                          Max(IntOf(a) - 1, 0) <= i /\ i < Min(IntOf(b), total) }
                 ELSE {}
        ELSE IF IntOk(part) /\ IntOf(part) \in 1..total
             THEN { IntOf(part) - 1 }
             ELSE {}

\* C3: the parse never raises; for an expression other than "all", a term
\* that is not INT or INT-INT and a bare INT outside 1..total add nothing,
\* and the result holds exactly the union of the indices of the other terms
\* (a bare INT n gives n-1), possibly none.
C3_NeverRaisesUnionOfValidTerms ==
    /\ pc # "parse_raised"
    /\ raised = FALSE
    /\ (pc = "parsed" /\ Lower(Strip(selection)) # AllWord) =>
           LET parts == Split(Lower(Strip(selection)), ",")
           IN  ToSet(selected_indices) =
                   UNION { TermIndices(parts[k], total_rows) : k \in 1..Len(parts) }

\* "x,2" over three rows: the malformed term is dropped, the other one kept
C3_Witness ==
    /\ pc = "parsed"
    /\ selection = << "x", ",", "2" >>
    /\ total_rows = 3
    /\ selected_indices = << 1 >>

----------------------------------------------------------------------------
(* Claims about group_rows_by_construction, checked under SpecGroup        *)

\* C4: with a group column, the present keys come in ascending
\* lexicographic order, each key once, and the absent-key group, when it
\* exists, is the last element: no present key follows it.
C4_PresentKeysAscendingAbsentLast ==
    (pc = "grouped" /\ construction_col # NoneIdx) =>
        \A i, j \in 1..Len(construction_groups) :
            i < j =>
                /\ construction_groups[i][1] # construction_groups[j][1]
                /\ construction_groups[i][1] # NoneText
                /\ construction_groups[j][1] # NoneText =>
                       TextLess(construction_groups[i][1],
                                construction_groups[j][1])

\* the grouping example: B, A, B, "" at 0..3 give A:[1], B:[0,2], absent:[3]
C4_Witness ==
    /\ pc = "grouped"
    /\ data_rows = SheetExample
    /\ construction_col = 0
    /\ row_indices = << 0, 1, 2 >>
    /\ construction_groups =
           << << << "A" >>, << 1 >> >>, << << "B" >>, << 0, 2 >> >> >>

\* an absent-key group after two present keys that were first seen unordered
C4_WitnessAbsentLast ==
    /\ pc = "grouped"
    /\ data_rows = SheetExample
    /\ construction_col = 0
    /\ row_indices = << 3, 0, 1 >>
    /\ construction_groups =
           << << << "A" >>, << 1 >> >>, << << "B" >>, << 0 >> >>,
              << NoneText, << 3 >> >> >>

\* number of occurrences of x in the list s
Count(x, s) == Cardinality({ i \in 1..Len(s) : s[i] = x })

RECURSIVE SumCounts(_, _)
SumCounts(x, groups) ==
    IF groups = << >> THEN 0
    ELSE Count(x, Head(groups)[2]) + SumCounts(x, Tail(groups))

\* the key the claim gives row x: the trimmed cell of the group column, or
\* absent when that text is empty or the row or the column is out of bounds
ExpectedKey(x) ==
    IF x >= Len(data_rows) THEN NoneText
    ELSE IF construction_col >= Len(data_rows[x + 1]) THEN NoneText
    ELSE IF Strip(data_rows[x + 1][construction_col + 1]) = << >> THEN NoneText
    ELSE Strip(data_rows[x + 1][construction_col + 1])

\* C5: with a group column, the groups partition the input: each index
\* occurs in the groups as often as in the input and only in the group of
\* its row's key, no group is empty, and no other index appears.
C5_GroupsPartitionInput ==
    (pc = "grouped" /\ construction_col # NoneIdx) =>
        /\ \A k \in 1..Len(construction_groups) :
               /\ construction_groups[k][2] # << >>
               /\ \A m \in 1..Len(construction_groups[k][2]) :
                      /\ construction_groups[k][2][m] \in ToSet(row_indices)
                      /\ construction_groups[k][1] =
                             ExpectedKey(construction_groups[k][2][m])
        /\ \A x \in ToSet(row_indices) :
               SumCounts(x, construction_groups) = Count(x, row_indices)

\* an index given twice, a key that needs trimming, a row past the end
C5_Witness ==
    /\ pc = "grouped"
    /\ data_rows = SheetPrefix
    /\ construction_col = 0
    /\ row_indices = << 2, 4, 2 >>
    /\ construction_groups =
           << << << "a", "b" >>, << 2, 2 >> >>, << NoneText, << 4 >> >> >>

IsNonDecreasing(s) == \A i \in 1..(Len(s) - 1) : s[i] <= s[i + 1]

\* C6 as claimed: every returned group, for any input and for a present as
\* well as an absent group column, has its indices sorted ascending.
C6_EveryGroupSorted ==
    pc = "grouped" =>
        \A k \in 1..Len(construction_groups) :
            IsNonDecreasing(construction_groups[k][2])

\* C6 amended: with a group column every group's indices are sorted
\* ascending, whatever the order of the input; without one the single group
\* carries the input in its original order, so it is sorted exactly when the
\* input is.
C6_GroupSortedWhenColumnPresent ==
    pc = "grouped" =>
        /\ construction_col # NoneIdx =>
               \A k \in 1..Len(construction_groups) :
                   IsNonDecreasing(construction_groups[k][2])
        /\ construction_col = NoneIdx =>
               \A k \in 1..Len(construction_groups) :
                   IsNonDecreasing(construction_groups[k][2])
                       <=> IsNonDecreasing(row_indices)

\* an unsorted input whose rows share a key: the group comes out sorted
C6_Witness ==
    /\ pc = "grouped"
    /\ data_rows = SheetExample
    /\ construction_col = 0
    /\ row_indices = << 2, 1, 0 >>
    /\ construction_groups =
           << << << "A" >>, << 1 >> >>, << << "B" >>, << 0, 2 >> >> >>

----------------------------------------------------------------------------
(* Claims about filter_rows_by_constructions, checked under SpecFilter     *)

\* the rows the claim keeps: the trimmed text of the row's group-column
\* cell is one of the selected groups
InSelectedGroup(x) ==
    /\ x < Len(data_rows)
    /\ construction_col < Len(data_rows[x + 1])
    /\ \E k \in 1..Len(selected_constructions) :
           selected_constructions[k] =
               Strip(data_rows[x + 1][construction_col + 1])

\* C8: without a group column or without a set of selected groups the input
\* comes back unchanged; otherwise exactly the input indices whose row's
\* trimmed group text is selected come back, in the input's order, and none
\* that was not in the input.
C8_FilterKeepsSelectedInOrder ==
    pc = "filtered" =>
        IF construction_col = NoneIdx \/ selected_constructions = NoneList
        THEN filtered_indices = row_indices
        ELSE /\ filtered_indices = SelectSeq(row_indices, InSelectedGroup)
             /\ ToSet(filtered_indices) \subseteq ToSet(row_indices)

\* a kept row whose cell needs trimming, before it a dropped one
C8_Witness ==
    /\ pc = "filtered"
    /\ data_rows = SheetPrefix
    /\ construction_col = 0
    /\ selected_constructions = << << "a" >>, << "a", "b" >> >>
    /\ row_indices = << 3, 2 >>
    /\ filtered_indices = << 2 >>

\* no filter: the input comes back as it is
C8_WitnessNoFilter ==
    /\ pc = "filtered"
    /\ selected_constructions = NoneList
    /\ construction_col = 0
    /\ row_indices = << 1, 0 >>
    /\ filtered_indices = << 1, 0 >>

----------------------------------------------------------------------------
(* Claims about find_column_index, checked under SpecFind                  *)

\* 0-based indices of the headers equal to candidate k after normalization
ExactHits(k) ==
    { i \in 0..(Len(headers) - 1) :
        Normalize(headers[i + 1]) = Normalize(search_names[k]) }

\* 0-based indices of the headers that hold candidate k, or are held by it,
\* once both are normalized and all whitespace is removed
SubstringHits(k) ==
    { i \in 0..(Len(headers) - 1) :
        \/ IsSubstring(RemoveSpaces(Normalize(search_names[k])),
                       RemoveSpaces(Normalize(headers[i + 1])))
        \/ IsSubstring(RemoveSpaces(Normalize(headers[i + 1])),
                       RemoveSpaces(Normalize(search_names[k]))) }

Matches(k) == ExactHits(k) \cup SubstringHits(k) # {}

IsExactHit(i) == \E k \in 1..Len(search_names) : i \in ExactHits(k)

Lowest(S) == CHOOSE x \in S : \A y \in S : x <= y

\* C9 as claimed: when some header equals some candidate after
\* normalization, the index returned is that of a header that is an exact
\* normalized match of a candidate; when no header matches any candidate
\* under either rule, the result is absent.
C9_ExactMatchAlwaysReturned ==
    pc = "found" =>
        /\ (\E k \in 1..Len(search_names) : ExactHits(k) # {}) =>
               (found_index # NoneIdx /\ IsExactHit(found_index))
        /\ (\A k \in 1..Len(search_names) : ~Matches(k)) =>
               found_index = NoneIdx

\* C9 amended: when some header equals, after normalization, a candidate
\* before which no candidate matches any header under either rule, the
\* index returned is that of a header that is an exact normalized match of
\* a candidate; when no header matches any candidate under either rule, the
\* result is absent.
C9_ExactMatchOfFirstMatchingCandidate ==
    pc = "found" =>
        /\ (\E k \in 1..Len(search_names) :
                /\ ExactHits(k) # {}
                /\ \A j \in 1..(k - 1) : ~Matches(j)) =>
               (found_index # NoneIdx /\ IsExactHit(found_index))
        /\ (\A k \in 1..Len(search_names) : ~Matches(k)) =>
               found_index = NoneIdx

\* the exact match "A" of the first matching candidate is returned, although
\* the header before it matches the same candidate as a substring
C9_Witness ==
    /\ pc = "found"
    /\ headers = << << "b", "a" >>, << "A" >> >>
    /\ search_names = << << "c" >>, << "a" >> >>
    /\ found_index = 1

\* no header matches any candidate: absent
C9_WitnessAbsent ==
    /\ pc = "found"
    /\ headers = << << "b" >>, << "b", "a" >> >>
    /\ search_names = << << "c" >> >>
    /\ found_index = NoneIdx

\* C10: the first candidate, in list order, that matches any header by
\* either rule decides: the result is the lowest index among its exact
\* matches when it has one, otherwise the lowest index among its substring
\* matches; a later candidate, even with an exact match, does not override
\* it; with no matching candidate the result is absent.
C10_FirstMatchingCandidateDecides ==
    pc = "found" =>
        LET matching == { k \in 1..Len(search_names) : Matches(k) }
        IN  IF matching = {} THEN found_index = NoneIdx
            ELSE LET k == Lowest(matching)
                 IN  found_index = IF ExactHits(k) # {} THEN Lowest(ExactHits(k))
                                   ELSE Lowest(SubstringHits(k))

\* the first candidate has only substring matches, the second an exact one:
\* the lowest substring match of the first candidate is returned
C10_Witness ==
    /\ pc = "found"
    /\ headers = << << "c", " " >>, << "b" >>, << "A" >> >>
    /\ search_names = << << "a", "b" >>, << "c" >> >>
    /\ found_index = 1

----------------------------------------------------------------------------
(* Claims about the document builder, checked under SpecBuild              *)

\* C7: without a group column the grouping returns exactly one group, of
\* absent key, whose indices are the input's, unchanged and in their
\* original order, and no row of the table built from it is a group header.
C7_NoColumnOneGroupNoHeader ==
    (construction_col = NoneIdx /\ pc # "build") =>
        /\ construction_groups = << << NoneText, row_indices >> >>
        /\ \A r \in 1..Len(table) : table[r].kind # "group"

\* a saved document without group column: two header rows, then the rows
\* of the input order 2, 0; no group header
C7_Witness ==
    /\ pc = "saved"
    /\ construction_col = NoneIdx
    /\ data_rows = SheetExample
    /\ row_indices = << 2, 0 >>
    /\ Len(table) = 4
    /\ table[3].kind = "data" /\ table[4].kind = "data"

\* the data rows of a table, top to bottom
DataRowsOf(t) == SelectSeq(t, LAMBDA r : r.kind = "data")

\* the member indices of the groups, group after group
RECURSIVE FlatMembers(_)
FlatMembers(groups) ==
    IF groups = << >> THEN << >>
    ELSE Head(groups)[2] \o FlatMembers(Tail(groups))

\* both loops of create_word_document are over
FillDone == pc \notin { "build", "rows" } /\ group_pos > Len(construction_groups)

\* C11: the sequence-number cells of the data rows, read top to bottom, are
\* 1, 2, ..., N with N the number of selected rows: the counter goes up by
\* one per data row, a group-header row neither resets nor advances it, and
\* the original row indices play no part.
C11_SequenceNumbersOneToN ==
    pc # "build" =>
        /\ \A k \in 1..Len(DataRowsOf(table)) :
               DataRowsOf(table)[k].cells[1] = Numeral(k)
        /\ row_counter = Len(DataRowsOf(table)) + 1
        /\ FillDone => Len(DataRowsOf(table)) = Len(row_indices)

\* a saved document of the rows 2, 0, 1 of the example sheet, grouped by the
\* first column: group A with sheet row 1, then group B with rows 0 and 2;
\* the numbers 1, 2, 3 run through the group header between them
C11_Witness ==
    /\ pc = "saved"
    /\ data_rows = SheetExample
    /\ construction_col = 0
    /\ row_indices = << 2, 0, 1 >>
    /\ Len(table) = 7
    /\ table[3].kind = "group" /\ table[4].cells[1] = << "1" >>
    /\ table[5].kind = "group" /\ table[6].cells[1] = << "2" >>
    /\ table[7].cells[1] = << "3" >>

\* what the claim expects in the cell of table column key of a data row
ExpectedCell(key, data_row) ==
    IF /\ key \in DOMAIN column_mapping
       /\ column_mapping[key] # NoneIdx
       /\ column_mapping[key] < Len(data_row)
    THEN data_row[column_mapping[key] + 1]
    ELSE << >>

IsTimestamp(t) ==
    /\ Len(t) = 15
    /\ t[9] = "_"
    /\ \A i \in (1..8) \cup (10..15) : IsDigit(t[i])

\* path is filename with "_" and a timestamp inserted before the extension
IsAlternateOf(path, filename) ==
    LET dot == LastPos(filename, ".")
    IN  /\ dot > 0
        /\ Len(path) = Len(filename) + 16
        /\ SubSeq(path, 1, dot - 1) = SubSeq(filename, 1, dot - 1)
        /\ path[dot] = "_"
        /\ IsTimestamp(SubSeq(path, dot + 1, dot + 15))
        /\ SubSeq(path, dot + 16, Len(path)) = SubSeq(filename, dot, Len(filename))

\* create_word_document has returned after it reached the save policy
ReturnedAfterPath ==
    pc \in { "saved", "save_failed", "build_failed" } /\ unlink_result # "unset"

\* C14 as stated: with no file of that name the document is saved under the
\* original filename; with a file of that name, whenever the deletion
\* fails the document is saved under the alternate filename with the
\* timestamp and that path is returned.
C14_AlwaysSavedAndReturned ==
    ReturnedAfterPath =>
        /\ unlink_result = "absent" =>
               build_result = output_filename /\ output_filename \in output_dir
        /\ unlink_result \in { "PermissionError", "OSError" } =>
               /\ IsAlternateOf(build_result, output_filename)
               /\ build_result \in output_dir

\* C14, amended: the save is attempted at the original filename when no
\* file of that name exists or the existing one was deleted, and at the
\* alternate filename with the timestamp when the deletion failed with a
\* permission error; a deletion attempt is made exactly when the file
\* exists; the path of the attempt is returned when the save succeeds;
\* nothing is returned and nothing is written when the save fails or the
\* deletion fails otherwise, and there is no second attempt.
C14_SavePolicy ==
    unlink_result # "unset" =>
        /\ pc \in { "save", "saved", "save_failed", "build_failed" }
        /\ unlink_result \in { "absent", "ok" } => output_path = output_filename
        /\ unlink_result = "PermissionError" =>
               IsAlternateOf(output_path, output_filename)
        /\ unlink_result \in { "PermissionError", "OSError" } =>
               output_filename \in output_dir
        /\ unlink_result = "OSError" =>
               pc = "build_failed" /\ save_result = "unset"
        /\ pc = "save" => save_result = "unset" /\ build_result = NoneText
        /\ pc = "saved" =>
               /\ save_result = "ok"
               /\ build_result = output_path
               /\ output_path \in output_dir
        /\ pc \in { "save_failed", "build_failed" } =>
               /\ save_result # "ok"
               /\ build_result = NoneText
               /\ output_path \notin output_dir \/ output_path = output_filename
               /\ unlink_result \in { "absent", "ok" } =>
                      output_filename \notin output_dir

\* the file of the name main gives to row 1 exists and cannot be deleted:
\* the document is saved with the timestamp before ".docx"
C14_Witness ==
    /\ pc = "saved"
    /\ unlink_result = "PermissionError"
    /\ output_filename = OutputFilename(<< 0 >>)
    /\ build_result =
           FILENAME_PREFIX
               \o << "1", "_", "2", "0", "2", "6", "1", "1", "0", "2", "_",
                     "0", "8", "0", "5", "0", "9" >>
               \o FILENAME_SUFFIX
    /\ output_dir = { output_filename, build_result }

----------------------------------------------------------------------------
(* Claims about a run of main, checked under SpecRun                       *)

\* create_word_document has allocated its table
TableAllocated == table # << >>

\* the rows the claim expects after the two header rows: for each group in
\* order its header row when the key is present, then one data row per
\* member index in ascending order, numbered from counter on
RECURSIVE ExpectedRows(_, _)
ExpectedRows(groups, counter) ==
    IF groups = << >> THEN << >>
    ELSE LET name == Head(groups)[1]
             members == SortedOfSet(ToSet(Head(groups)[2]))
         IN  (IF name # NoneText
              THEN << [ kind |-> "group", cells |-> << name >> ] >>
              ELSE << >>)
             \o [ k \in 1..Len(members) |->
                    DataRow(column_mapping, data_rows[members[k] + 1],
                            counter + k - 1) ]
             \o ExpectedRows(Tail(groups), counter + Len(members))

LoadEnded ==
    pc \notin { "main", "select_file", "load", "sheet_prompt", "load_rows" }

\* create_word_document was called
BuildInvoked == pc = "build" \/ TableAllocated

\* no file of OUTPUT_DIR was deleted or written
OutputUntouched ==
    /\ unlink_result = "unset" /\ save_result = "unset"
    /\ build_result = NoneText
    /\ output_dir \in { { }, ExistingOutputs }

\* C15: a read error inside read_excel_file (a workbook that cannot be
\* opened, a sheet name that is not in the workbook, a sheet without first
\* row) makes it return empty rows, no sheet name, an empty mapping and no
\* group column, no exception reaching the caller; main then ends the run
\* without building a document.
C15_ReadErrorReturnsEmptyRunEnds ==
    load_error # "none" =>
        /\ pc \in { "loaded", "exit" }
        /\ ~raised
        /\ data_rows = << >> /\ sheet_name = NoneText
        /\ column_mapping = << >> /\ construction_col = NoneIdx
        /\ "read_error" \in printed
        /\ ~BuildInvoked /\ OutputUntouched
        /\ pc = "exit" => exit_status = 0 /\ "load_failed" \in printed

\* the first sheet of the chosen workbook has no row: StopIteration is
\* caught, and main has ended the run
C15_Witness ==
    /\ caller = "main"
    /\ pc = "exit"
    /\ excel_files = << WbTwoSheets >>
    /\ load_error = "StopIteration"
    /\ data_rows = << >> /\ sheet_name = NoneText
    /\ "load_failed" \in printed

\* C16 as stated: after Ctrl-C at any prompt of main (file, sheet, group or
\* row prompt) the run is over: no later prompt, no document, status 0.
C16_InterruptEndsRun ==
    (caller = "main" /\ interrupted # "none") =>
        /\ pc = "exit"
        /\ exit_status = 0
        /\ ~BuildInvoked /\ OutputUntouched

\* C17 as stated: once an expression without any valid index was reported,
\* the run is over and there is no document.
C17_EmptySelectionEndsRun ==
    "no_rows_try_again" \in printed =>
        /\ pc = "exit"
        /\ ~BuildInvoked /\ OutputUntouched

\* C17, amended: an expression that yields no valid index is reported and
\* the row prompt is shown again; read_excel_file's rows never reach the
\* builder with an empty selection; the run ends without a document when
\* the row prompt is interrupted.
C17_EmptySelectionAsksAgain ==
    /\ (/\ pc \in { "select_rows", "rows_returned" }
        /\ typed # KeyboardInterrupt
        /\ Strip(typed) # << >>
        /\ ParseRowSelection(Strip(typed), Len(filtered_data)).indices = << >>)
           => /\ pc = "select_rows"
              /\ "no_rows_try_again" \in printed
              /\ selected_indices = << >>
              /\ exit_status = NoneIdx
    /\ (caller = "main" /\ BuildInvoked) =>
           selected_indices # << >> /\ row_indices # << >>
    /\ (pc = "exit" /\ interrupted = "rows") =>
           ~BuildInvoked /\ OutputUntouched /\ exit_status = 0

\* "9" was answered to the row prompt of a sheet of three rows: reported,
\* and the prompt is shown again
C17_Witness ==
    /\ pc = "select_rows"
    /\ excel_files = << WbCorrupt, WbNoGroup >>
    /\ typed = << "9" >>
    /\ selection = << "9" >>
    /\ selected_indices = << >>
    /\ "no_rows_try_again" \in printed

\* C18: in a run without workbook, with a sheet that cannot be read, with
\* no row left by the group filter or with an empty row selection, the run
\* ends before create_word_document is called, and no file of OUTPUT_DIR
\* is created or replaced.
C18_NoBuildWithoutRows ==
    caller = "main" =>
        /\ (\/ excel_files = << >>
            \/ load_error # "none"
            \/ (LoadEnded /\ data_rows = << >>))
               => /\ pc \in { "main", "select_file", "loaded", "exit" }
                  /\ ~BuildInvoked
        /\ (\/ "filtered_empty" \in printed
            \/ "no_rows_selected" \in printed)
               => pc = "exit" /\ exit_status = 0 /\ ~BuildInvoked
        /\ BuildInvoked =>
               /\ data_rows # << >> /\ filtered_data # << >>
               /\ selected_indices # << >> /\ row_indices # << >>
        /\ ~BuildInvoked => OutputUntouched

\* the chosen workbook has its header row only: the run has ended without
\* a call of create_word_document, a file of OUTPUT_DIR being left alone
C18_Witness ==
    /\ caller = "main"
    /\ pc = "exit"
    /\ excel_files = << WbHeaderOnly >>
    /\ workbook = "closed"
    /\ data_rows = << >>
    /\ "load_failed" \in printed
    /\ output_dir = ExistingOutputs
    /\ table = << >>

\* C19 as stated: a failure of the build that is not one of the recoverable
\* ones (an error of the deletion or of the save other than a permission
\* error) ends the process with a status that is not zero.
C19_UnexpectedFailureExitsNonZero ==
    (/\ caller = "main"
     /\ pc = "exit"
     /\ (unlink_result = "OSError" \/ save_result = "OSError"))
        => exit_status # 0

\* C20 as stated: when read_excel_file has ended, by return or by
\* exception, the workbook it opened is closed.
C20_WorkbookReleased == LoadEnded => workbook # "open"


\* the groups were selected and create_word_document was called
GroupsSelectedAndBuilt ==
    /\ BuildInvoked
    /\ selected_constructions # NoneList
    /\ construction_col # NoneIdx

\* the row at position i (0-based) of the sheet has its trimmed group text
\* among the selected groups
RowInSelectedGroup(i) ==
    /\ construction_col < Len(data_rows[i + 1])
    /\ Strip(data_rows[i + 1][construction_col + 1])
           \in ToSet(selected_constructions)

\* the positions in the sheet of the rows of the selected groups
SelectedPositions == { i \in 0..(Len(data_rows) - 1) : RowInSelectedGroup(i) }

\* position i is the k-th (0-based) row of the selected groups
IsKthSelected(i, k) ==
    /\ i \in SelectedPositions
    /\ Cardinality({ j \in SelectedPositions : j < i }) = k

\* C21: when groups were selected, the indices handed to
\* create_word_document are the positions in the sheet of the rows picked in
\* the filtered list: as many as were picked, the j-th being the position of
\* the k-th row of the selected groups for the j-th picked k, strictly
\* ascending, within the sheet, and none of an unselected group
C21_IndicesTranslatedBack ==
    GroupsSelectedAndBuilt =>
        /\ Len(row_indices) = Len(selected_indices)
        /\ \A j \in 1..Len(row_indices) :
               /\ IsKthSelected(row_indices[j], selected_indices[j])
               /\ row_indices[j] \in 0..(Len(data_rows) - 1)
               /\ RowInSelectedGroup(row_indices[j])
        /\ \A j \in 1..(Len(row_indices) - 1) :
               row_indices[j] < row_indices[j + 1]

\* a run in which the second row of the filtered list was picked, which is
\* the third row of the sheet
C21_Witness ==
    /\ GroupsSelectedAndBuilt
    /\ selected_indices = << 1 >>
    /\ row_indices = << 2 >>
    /\ pc = "saved"

----------------------------------------------------------------------------
(* Blank headers, checked under SpecFind                                   *)

\* no candidate is empty after normalization
CandidatesNotBlank ==
    \A n \in 1..Len(search_names) : Normalize(search_names[n]) # << >>

\* C22: find_column_index never returns the index of a header that is
\* empty after normalization, whatever the headers and the non-empty
\* candidates are
C22_BlankHeaderNeverReturned ==
    (pc = "found" /\ CandidatesNotBlank /\ found_index # NoneIdx) =>
        Normalize(headers[found_index + 1]) # << >>

=============================================================================
